---- MODULE Spec2Model ----
(***************************************************************************)
(* Task Timer: the task store and the timer sessions of                    *)
(*   src/task_timer.py      (command line program, one command per run)    *)
(*   src/task_timer_gui.py  (tkinter program, one long-lived window)       *)
(*                                                                         *)
(* Spec     the command line program: add, delete and start commands run   *)
(*          one after the other against the JSON data file.                *)
(* SpecGUI  the tkinter program: button callbacks and after() timers.      *)
(*                                                                         *)
(* Optional values (a dict key that may be absent, an argument that may be *)
(* None) are sequences of length 0 or 1.                                   *)
(***************************************************************************)
EXTENDS Integers, Sequences, FiniteSets, TLC

(***************************************************************************)
(* Bounds of the model                                                     *)
(***************************************************************************)
\* add is offered while the store holds fewer than MaxTasks tasks
MaxTasks == 2
\* number of readings of datetime.now() in one behaviour
MaxWall == 3
\* seconds by which the sleeps of one countdown overrun in all, and by which
\* Tk runs a due after() callback late
MaxLate == 1
\* longest countdown, in seconds, of the runs of run_timer on its own
MaxTotal == 100
\* the store commands on their own: tasks in the store, and readings of
\* datetime.now()
MaxStoreTasks == 3
MaxStoreWall == 4

(***************************************************************************)
(* Program constants                                                       *)
(***************************************************************************)
\* DEFAULT_CONFIG["default_duration"]
default_duration == 25
\* DEFAULT_CONFIG["default_break"]
default_break == 5
\* run_timer: duration = duration_minutes * 60
SecondsPerMinute == 60

(***************************************************************************)
(* Inputs                                                                  *)
(***************************************************************************)
Names == {"a"}
\* minutes given to add ("0" passes isdigit, so 0 is accepted) and to --break
Minutes == {0, 1}
DurationArgs == {<<m>> : m \in Minutes}
TagArgs == {<<>>}
TaskIds == 1..(MaxTasks + 1)
\* start: no --break, --break alone (True: the configured default), --break <n>
BreakArgs ==
    {[kind |-> "none", minutes |-> 0], [kind |-> "default", minutes |-> 0]}
        \cup {[kind |-> "minutes", minutes |-> m] : m \in Minutes}
\* outcome of play_notification_sound: the sound played, or nothing was heard
\* (sound disabled, playsound missing, file missing, or playback raised)
SoundResults == {"played", "failed"}

VARIABLES
    file,            \* the JSON data file: the list of task records
    wall,            \* datetime.now(): each command reads a later instant
    pc,              \* position of the running start command, "idle" if none
    tasks,           \* start_timer: the list loaded at its beginning
    task,            \* start_timer: index in tasks of the task found
    duration,        \* run_timer: duration in seconds
    remaining,       \* run_timer: the loop variable, 0 once the loop is over
    elapsed,         \* seconds slept since run_timer began
    time_color,      \* run_timer: the colour of the last time printed
    break_duration,  \* start_timer: the --break argument
    silent,          \* start_timer: the --silent flag
    notes,           \* calls of play_notification_sound by this start command
    work,            \* state of the work session of this start command
    brk,             \* state of the break session of this start command
    offered,         \* the break prompt was shown by this start command
    assigned,        \* history: ids given by add, in call order
    everDeleted,     \* history: some delete removed a task
    last,            \* history: the last command and its result
    out,             \* what the last list or stats command reported
    \* ---- task_timer_gui.py ----
    timers,          \* Tk: the pending after() callbacks, one per countdown
    timer_id,        \* self.timer_id: "None", or "set" once after() returned
    paused,          \* global paused
    g_task_id,       \* global task_id: <<>> unbound, <<0>> None, <<id>>
    g_task,          \* global task: <<>> unbound, <<name>> of the record
    g_remaining,     \* global remaining: <<>> unbound, <<seconds>>
    pause_cmd,       \* command of the pause button: "pause" or "resume"
    enabled,         \* state of add, start, delete buttons and the listbox
    selection,       \* listbox: the selected row, 0 for none
    g_notes,         \* calls of play_notification_sound by the window
    sess,            \* state of the session begun by the last start
    overlap          \* 0, or 1 + the seconds since a second countdown began

storeVars == <<file, wall>>
procVars == <<pc, tasks, task, duration, remaining, elapsed, time_color,
              break_duration, silent, notes, work, brk, offered>>
histVars == <<assigned, everDeleted, last>>
guiVars == <<timers, timer_id, paused, g_task_id, g_task, g_remaining,
             pause_cmd, enabled, selection, g_notes, sess, overlap>>
vars == <<storeVars, procVars, histVars, guiVars, out>>

(***************************************************************************)
(* The task store of task_timer.py                                         *)
(***************************************************************************)
\* load_tasks: the content of the data file ([] when there is none)
load_tasks == file

\* save_tasks(tasks): the whole list replaces the file
save_tasks(ts) == file' = ts

\* datetime.now().isoformat(): microsecond resolution, so two commands never
\* read the same instant; the reading is wall, and wall moves on
datetime_now == wall

\* mutant of NextId: the new id is the length of the list, not length + 1
NextIdOffByOne(ts) == IF ts = <<>> THEN 1 ELSE Len(ts)

\* add_task: "id": len(tasks) + 1
NextId(ts) == Len(ts) + 1

\* add_task: the new record; it has no completed_at key
NewTask(ts, name, dur, tags, t) ==
    [id |-> NextId(ts),
     name |-> name,
     duration |-> IF dur = <<>> THEN default_duration ELSE dur[1],
     completed |-> FALSE,
     created_at |-> t,
     completed_at |-> <<>>,
     tags |-> tags]

\* mutant of FindTask: an unknown id falls back to the first task
FindTaskOrFirst(ts, task_id) ==
    IF \E i \in 1..Len(ts) : ts[i].id = task_id
    THEN CHOOSE i \in 1..Len(ts) :
            /\ ts[i].id = task_id
            /\ \A j \in 1..(i - 1) : ts[j].id # task_id
    ELSE IF ts = <<>> THEN 0 ELSE 1

\* next((t for t in tasks if t["id"] == task_id), None): index of the first
\* task with that id, 0 for None
FindTask(ts, task_id) ==
    IF \E i \in 1..Len(ts) : ts[i].id = task_id
    THEN CHOOSE i \in 1..Len(ts) :
            /\ ts[i].id = task_id
            /\ \A j \in 1..(i - 1) : ts[j].id # task_id
    ELSE 0

\* [t for t in tasks if t["id"] != task_id]
RECURSIVE RemoveId(_, _)
RemoveId(ts, task_id) ==
    IF ts = <<>> THEN <<>>
    ELSE IF Head(ts).id = task_id THEN RemoveId(Tail(ts), task_id)
    ELSE <<Head(ts)>> \o RemoveId(Tail(ts), task_id)

\* mutant of MarkCompleted: the completed_at assignment is missing
MarkCompletedNoTime(ts, i, t) ==
    [ts EXCEPT ![i] = [@ EXCEPT !.completed = TRUE]]

\* start_timer: task["completed"] = True; task["completed_at"] = now
MarkCompleted(ts, i, t) ==
    [ts EXCEPT ![i] = [@ EXCEPT !.completed = TRUE, !.completed_at = <<t>>]]

\* mutant of TimeColor: the bands are cut with >= instead of >
TimeColorInclusive(is_break, rem, dur) ==
    IF is_break
    THEN IF 2 * rem >= dur THEN "CYAN"
         ELSE IF 4 * rem >= dur THEN "BLUE"
         ELSE "MAGENTA"
    ELSE IF 2 * rem >= dur THEN "GREEN"
         ELSE IF 4 * rem >= dur THEN "YELLOW"
         ELSE "RED"

\* run_timer, lines 292-308: the colour of the time. duration * 0.5 and
\* duration * 0.25 are exact in floating point, so remaining > duration * 0.5
\* is 2 * remaining > duration, and remaining > duration * 0.25 is
\* 4 * remaining > duration
TimeColor(is_break, rem, dur) ==
    IF is_break
    THEN IF 2 * rem > dur THEN "CYAN"
         ELSE IF 4 * rem > dur THEN "BLUE"
         ELSE "MAGENTA"
    ELSE IF 2 * rem > dur THEN "GREEN"
         ELSE IF 4 * rem > dur THEN "YELLOW"
         ELSE "RED"

(***************************************************************************)
(* Tags, list and stats of task_timer.py                                   *)
(***************************************************************************)
\* str.lower() on the tags in use
Lower(s) ==
    CASE s = "A" -> "a"
      [] s = "B" -> "b"
      [] OTHER -> s

\* [tag.lower() for tag in t.get("tags", [])]
LowerTags(t) == [k \in 1..Len(t.tags) |-> Lower(t.tags[k])]

\* filter_tag.lower() in [tag.lower() for tag in t.get("tags", [])]
HasTag(t, filter_tag) ==
    \E k \in 1..Len(t.tags) : LowerTags(t)[k] = Lower(filter_tag)

\* "if filter_tag: tasks = [t for t in tasks if ...]" of list_tasks and
\* show_stats; filter_tag is <<>> for None, and the empty string is false
FilterTasks(ts, filter_tag) ==
    IF filter_tag # <<>> /\ filter_tag[1] # ""
    THEN SelectSeq(ts, LAMBDA t : HasTag(t, filter_tag[1]))
    ELSE ts

\* sum(1 for t in tasks if t["completed"])
RECURSIVE CountCompleted(_)
CountCompleted(ts) ==
    IF ts = <<>> THEN 0
    ELSE (IF Head(ts).completed THEN 1 ELSE 0) + CountCompleted(Tail(ts))

\* sum(t["duration"] for t in tasks if t["completed"])
RECURSIVE CompletedMinutes(_)
CompletedMinutes(ts) ==
    IF ts = <<>> THEN 0
    ELSE (IF Head(ts).completed THEN Head(ts).duration ELSE 0)
            + CompletedMinutes(Tail(ts))

\* show_stats, lines 434-442: one tag of one task is counted in the bucket
\* of its lower case form
CountTag(tag_stats, t, tag) ==
    LET tag_lower == Lower(tag)
        old == IF tag_lower \in DOMAIN tag_stats
               THEN tag_stats[tag_lower]
               ELSE [total |-> 0, completed |-> 0, time |-> 0]
        new == [total |-> old.total + 1,
                completed |-> old.completed + (IF t.completed THEN 1 ELSE 0),
                time |-> old.time + (IF t.completed THEN t.duration ELSE 0)]
    IN [x \in DOMAIN tag_stats \cup {tag_lower} |->
            IF x = tag_lower THEN new ELSE tag_stats[x]]

\* show_stats, lines 433-442: "for task in all_tasks: for tag in tags";
\* k is the number of tags of the first task already counted
RECURSIVE TagStats(_, _, _)
TagStats(tag_stats, ts, k) ==
    IF ts = <<>> THEN tag_stats
    ELSE IF k >= Len(Head(ts).tags) THEN TagStats(tag_stats, Tail(ts), 0)
    ELSE TagStats(CountTag(tag_stats, Head(ts), Head(ts).tags[k + 1]), ts, k + 1)

NoTagStats == [x \in {} |-> 0]

NoOutput ==
    [cmd |-> "none", filter |-> <<>>, listed |-> <<>>, total |-> 0,
     completed |-> 0, total_time |-> 0, tag_stats |-> NoTagStats]

\* what show_stats(filter_tag) prints for the tasks ts
Stats(ts, filter_tag) ==
    LET sel == FilterTasks(ts, filter_tag)
    IN [cmd |-> "stats",
        filter |-> filter_tag,
        listed |-> <<>>,
        total |-> Len(sel),
        completed |-> CountCompleted(sel),
        total_time |-> CompletedMinutes(sel),
        tag_stats |-> IF filter_tag # <<>> /\ filter_tag[1] # ""
                      THEN NoTagStats
                      ELSE TagStats(NoTagStats, ts, 0)]

\* the list command: the tasks printed, in the order printed
list_tasks(filter_tag) ==
    /\ out' = [NoOutput EXCEPT !.cmd = "list", !.filter = filter_tag,
                               !.listed = FilterTasks(load_tasks, filter_tag)]
    /\ UNCHANGED <<storeVars, procVars, histVars, guiVars>>

\* the stats command
show_stats(filter_tag) ==
    /\ out' = Stats(load_tasks, filter_tag)
    /\ UNCHANGED <<storeVars, procVars, histVars, guiVars>>

(***************************************************************************)
(* Commands of task_timer.py                                               *)
(***************************************************************************)
add_task(name, dur, tags) ==
    /\ UNCHANGED <<guiVars, out>>
    /\ LET ts == load_tasks
           new == NewTask(ts, name, dur, tags, datetime_now)
       IN /\ save_tasks(Append(ts, new))
          /\ assigned' = Append(assigned, new.id)
          /\ last' = [op |-> "add", id |-> new.id, result |-> "ok"]
    /\ wall' = wall + 1
    /\ UNCHANGED <<procVars, everDeleted>>

\* mutant of delete_task: only the first task with that id is removed
delete_task_first_only(task_id) ==
    /\ UNCHANGED <<guiVars, out>>
    /\ LET ts == load_tasks
           i == FindTask(ts, task_id)
       IN IF i # 0
          THEN /\ save_tasks(SubSeq(ts, 1, i - 1) \o SubSeq(ts, i + 1, Len(ts)))
               /\ everDeleted' = TRUE
               /\ last' = [op |-> "delete", id |-> task_id, result |-> "ok"]
          ELSE /\ last' = [op |-> "delete", id |-> task_id,
                           result |-> "NotFound"]
               /\ UNCHANGED <<file, everDeleted>>
    /\ UNCHANGED <<wall, procVars, assigned>>

delete_task(task_id) ==
    /\ UNCHANGED <<guiVars, out>>
    /\ LET ts == load_tasks
       IN IF \E i \in 1..Len(ts) : ts[i].id = task_id
          THEN /\ save_tasks(RemoveId(ts, task_id))
               /\ everDeleted' = TRUE
               /\ last' = [op |-> "delete", id |-> task_id, result |-> "ok"]
          ELSE /\ last' = [op |-> "delete", id |-> task_id,
                           result |-> "NotFound"]
               /\ UNCHANGED <<file, everDeleted>>
    /\ UNCHANGED <<wall, procVars, assigned>>

\* the start command ends: its process and the locals of start_timer and
\* run_timer are gone
proc_exit ==
    /\ pc' = "idle"
    /\ tasks' = <<>>
    /\ task' = 0
    /\ duration' = 0
    /\ remaining' = 0
    /\ elapsed' = 0
    /\ time_color' = "none"
    /\ break_duration' = [kind |-> "none", minutes |-> 0]
    /\ silent' = FALSE

\* run_timer, up to the first iteration of its loop
run_timer_enter(duration_minutes, is_break) ==
    /\ duration' = duration_minutes * SecondsPerMinute
    /\ remaining' = duration_minutes * SecondsPerMinute
    /\ elapsed' = 0
    /\ time_color' = "none"
    /\ pc' = IF is_break THEN "break" ELSE "work"

\* start_timer, lines 341-361: load, look the task up, start the work timer
start_timer(task_id, brkArg, sil) ==
    /\ UNCHANGED <<guiVars, out>>
    /\ pc = "idle"
    /\ LET ts == load_tasks
           i == FindTask(ts, task_id)
       IN IF i = 0
          THEN /\ last' = [op |-> "start", id |-> task_id,
                           result |-> "NotFound"]
               /\ UNCHANGED <<procVars>>
          ELSE /\ tasks' = ts
               /\ task' = i
               /\ break_duration' = brkArg
               /\ silent' = sil
               /\ notes' = <<>>
               /\ work' = "Running"
               /\ brk' = "Idle"
               /\ offered' = FALSE
               /\ run_timer_enter(ts[i].duration, FALSE)
               /\ last' = [op |-> "start", id |-> task_id,
                           result |-> "Started"]
    /\ UNCHANGED <<storeVars, assigned, everDeleted>>

\* mutant of run_timer_tick: the loop variable never goes below 1
run_timer_tick_stalls(d) ==
    /\ UNCHANGED <<guiVars, out>>
    /\ pc \in {"work", "break"}
    /\ remaining > 0
    /\ elapsed + d <= (duration - remaining + 1) + MaxLate
    /\ time_color' = TimeColor(pc = "break", remaining, duration)
    /\ remaining' = IF remaining > 1 THEN remaining - 1 ELSE remaining
    /\ elapsed' = elapsed + d
    /\ UNCHANGED <<storeVars, histVars, pc, tasks, task, duration,
                   break_duration, silent, notes, work, brk, offered>>

\* one iteration of "for remaining in range(duration, 0, -1)": print the
\* time, sleep; time.sleep(1) returns after d >= 1 seconds
run_timer_tick(d) ==
    /\ UNCHANGED <<guiVars, out>>
    /\ pc \in {"work", "break"}
    /\ remaining > 0
    /\ elapsed + d <= (duration - remaining + 1) + MaxLate
    /\ time_color' = TimeColor(pc = "break", remaining, duration)
    /\ remaining' = remaining - 1
    /\ elapsed' = elapsed + d
    /\ UNCHANGED <<storeVars, histVars, pc, tasks, task, duration,
                   break_duration, silent, notes, work, brk, offered>>

\* play_notification_sound(): what it did is recorded; it never raises
play_notification_sound(kind, result) ==
    notes' = Append(notes, [kind |-> kind, result |-> result])

\* mutant of run_timer_timeup: the end of a break is not notified
run_timer_timeup_work_only(result) ==
    /\ UNCHANGED <<guiVars, out>>
    /\ pc \in {"work", "break"}
    /\ remaining = 0
    /\ IF silent \/ pc = "break"
       THEN /\ result = "failed"
            /\ UNCHANGED notes
       ELSE play_notification_sound(pc, result)
    /\ pc' = IF pc = "work" THEN "work_sound" ELSE "break_sound"
    /\ UNCHANGED <<storeVars, histVars, tasks, task, duration, remaining,
                   elapsed, time_color, break_duration, silent, work, brk,
                   offered>>

\* mutant of run_timer_timeup: a playback that fails raises out of
\* run_timer, and the command ends there
run_timer_timeup_raises(result) ==
    /\ UNCHANGED <<guiVars, out>>
    /\ pc \in {"work", "break"}
    /\ remaining = 0
    /\ IF silent
       THEN /\ result = "failed"
            /\ pc' = IF pc = "work" THEN "work_sound" ELSE "break_sound"
            /\ UNCHANGED <<notes, tasks, task, duration, remaining, elapsed,
                           time_color, break_duration, silent, work, brk>>
       ELSE /\ play_notification_sound(pc, result)
            /\ IF result = "failed"
               THEN /\ proc_exit
                    /\ IF pc = "work"
                       THEN work' = "Failed" /\ UNCHANGED brk
                       ELSE brk' = "Failed" /\ UNCHANGED work
               ELSE /\ pc' = IF pc = "work" THEN "work_sound"
                                            ELSE "break_sound"
                    /\ UNCHANGED <<tasks, task, duration, remaining, elapsed,
                                   time_color, break_duration, silent, work,
                                   brk>>
    /\ UNCHANGED <<storeVars, histVars, offered>>

\* the loop is over: "if not silent: play_notification_sound()"
run_timer_timeup(result) ==
    /\ UNCHANGED <<guiVars, out>>
    /\ pc \in {"work", "break"}
    /\ remaining = 0
    /\ IF silent
       THEN /\ result = "failed"
            /\ UNCHANGED notes
       ELSE play_notification_sound(pc, result)
    /\ pc' = IF pc = "work" THEN "work_sound" ELSE "break_sound"
    /\ UNCHANGED <<storeVars, histVars, tasks, task, duration, remaining,
                   elapsed, time_color, break_duration, silent, work, brk,
                   offered>>

\* mutant of run_timer_return: the end of the break marks the task completed
\* once more and saves
run_timer_return_break_saves ==
    /\ UNCHANGED <<guiVars, out>>
    /\ pc \in {"work_sound", "break_sound"}
    /\ wall < MaxWall
    /\ save_tasks(MarkCompleted(tasks, task, datetime_now))
    /\ wall' = wall + 1
    /\ IF pc = "work_sound"
       THEN /\ work' = "Completed"
            /\ offered' = (break_duration.kind # "none")
            /\ IF break_duration.kind = "none"
               THEN proc_exit
               ELSE /\ pc' = "prompt"
                    /\ tasks' = MarkCompleted(tasks, task, datetime_now)
                    /\ UNCHANGED <<task, duration, remaining, elapsed,
                                   time_color, break_duration, silent>>
            /\ UNCHANGED brk
       ELSE /\ brk' = "Completed"
            /\ proc_exit
            /\ UNCHANGED <<work, offered>>
    /\ UNCHANGED <<histVars, notes>>

\* mutant of run_timer_return: the break prompt is shown without --break too
run_timer_return_always_asks ==
    /\ UNCHANGED <<guiVars, out>>
    /\ pc \in {"work_sound", "break_sound"}
    /\ IF pc = "work_sound"
       THEN /\ wall < MaxWall
            /\ save_tasks(MarkCompleted(tasks, task, datetime_now))
            /\ wall' = wall + 1
            /\ work' = "Completed"
            /\ offered' = TRUE
            /\ pc' = "prompt"
            /\ tasks' = MarkCompleted(tasks, task, datetime_now)
            /\ UNCHANGED <<task, duration, remaining, elapsed,
                           time_color, break_duration, silent>>
            /\ UNCHANGED brk
       ELSE /\ brk' = "Completed"
            /\ proc_exit
            /\ UNCHANGED <<storeVars, work, offered>>
    /\ UNCHANGED <<histVars, notes>>

\* run_timer returns True. For the work timer start_timer marks the task
\* completed, saves the list it loaded and goes on to the break prompt; for
\* the break timer the command ends.
run_timer_return ==
    /\ UNCHANGED <<guiVars, out>>
    /\ pc \in {"work_sound", "break_sound"}
    /\ IF pc = "work_sound"
       THEN /\ wall < MaxWall
            /\ save_tasks(MarkCompleted(tasks, task, datetime_now))
            /\ wall' = wall + 1
            /\ work' = "Completed"
            /\ offered' = (break_duration.kind # "none")
            /\ IF break_duration.kind = "none"
               THEN proc_exit
               ELSE /\ pc' = "prompt"
                    /\ tasks' = MarkCompleted(tasks, task, datetime_now)
                    /\ UNCHANGED <<task, duration, remaining, elapsed,
                                   time_color, break_duration, silent>>
            /\ UNCHANGED brk
       ELSE /\ brk' = "Completed"
            /\ proc_exit
            /\ UNCHANGED <<storeVars, work, offered>>
    /\ UNCHANGED <<histVars, notes>>

\* mutant of run_timer_interrupt: the interrupted work timer still has its
\* task marked completed and saved
run_timer_interrupt_saves ==
    /\ UNCHANGED <<guiVars, out>>
    /\ pc \in {"work", "break", "work_sound", "break_sound"}
    /\ IF pc \in {"work", "work_sound"}
       THEN /\ work' = "Cancelled"
            /\ save_tasks(MarkCompleted(tasks, task, datetime_now))
            /\ UNCHANGED <<brk, wall>>
       ELSE brk' = "Cancelled" /\ UNCHANGED <<work, storeVars>>
    /\ proc_exit
    /\ UNCHANGED <<histVars, notes, offered>>

\* KeyboardInterrupt inside the try block of run_timer (the loop, or the
\* playing of the sound): run_timer returns False and the command ends
run_timer_interrupt ==
    /\ UNCHANGED <<guiVars, out>>
    /\ pc \in {"work", "break", "work_sound", "break_sound"}
    /\ IF pc \in {"work", "work_sound"}
       THEN work' = "Cancelled" /\ UNCHANGED brk
       ELSE brk' = "Cancelled" /\ UNCHANGED work
    /\ proc_exit
    /\ UNCHANGED <<storeVars, histVars, notes, offered>>

\* the minutes of the break: the configured default for --break alone
BreakMinutes(b) == IF b.kind = "default" THEN default_break ELSE b.minutes

\* input("Start n-minute break? (Y/n)"): anything but "n" starts the break;
\* the answer is kept in the history
confirm_break(response) ==
    /\ UNCHANGED <<guiVars, out>>
    /\ pc = "prompt"
    /\ IF response # "n"
       THEN /\ run_timer_enter(BreakMinutes(break_duration), TRUE)
            /\ brk' = "Running"
            /\ last' = [last EXCEPT !.result = "BreakAccepted"]
            /\ UNCHANGED <<tasks, task, break_duration, silent>>
       ELSE /\ proc_exit
            /\ last' = [last EXCEPT !.result = "BreakDeclined"]
            /\ UNCHANGED brk
    /\ UNCHANGED <<storeVars, assigned, everDeleted, notes, work, offered>>

\* KeyboardInterrupt at the prompt: nothing catches it, the command ends
prompt_interrupt ==
    /\ UNCHANGED <<guiVars, out>>
    /\ pc = "prompt"
    /\ proc_exit
    /\ UNCHANGED <<storeVars, histVars, notes, work, brk, offered>>

Init ==
    /\ file = <<>>
    /\ wall = 0
    /\ pc = "idle"
    /\ tasks = <<>>
    /\ task = 0
    /\ duration = 0
    /\ remaining = 0
    /\ elapsed = 0
    /\ time_color = "none"
    /\ break_duration = [kind |-> "none", minutes |-> 0]
    /\ silent = FALSE
    /\ notes = <<>>
    /\ work = "Idle"
    /\ brk = "Idle"
    /\ offered = FALSE
    /\ assigned = <<>>
    /\ everDeleted = FALSE
    /\ last = [op |-> "none", id |-> 0, result |-> "none"]
    /\ out = NoOutput
    /\ timers = <<>>
    /\ timer_id = "None"
    /\ paused = 0
    /\ g_task_id = <<>>
    /\ g_task = <<>>
    /\ g_remaining = <<>>
    /\ pause_cmd = "pause"
    /\ enabled = TRUE
    /\ selection = 0
    /\ g_notes = <<>>
    /\ sess = "Idle"
    /\ overlap = 0

\* one command at a time: add and delete run while no start command does
Next ==
    \/ /\ pc = "idle"
       /\ wall < MaxWall
       /\ Len(file) < MaxTasks
       /\ \E n \in Names, d \in DurationArgs, tg \in TagArgs : add_task(n, d, tg)
    \/ pc = "idle" /\ \E id \in TaskIds : delete_task(id)
    \/ \E id \in TaskIds, b \in BreakArgs, s \in BOOLEAN : start_timer(id, b, s)
    \/ \E d \in 1..(1 + MaxLate) : run_timer_tick(d)
    \/ \E r \in SoundResults : run_timer_timeup(r)
    \/ run_timer_return
    \/ run_timer_interrupt
    \/ \E r \in {"y", "n"} : confirm_break(r)
    \/ prompt_interrupt

Spec == Init /\ [][Next]_vars

(***************************************************************************)
(* The task store used by task_timer_gui.py: TaskManager                   *)
(* (imported from task_timer; it is the store of the specification, 4.1).  *)
(* The window reloads the list after every change, so task_manager.tasks   *)
(* is the content of the data file.                                        *)
(***************************************************************************)
\* DEFAULT_BREAK_DURATION, imported from task_timer: the default break
DEFAULT_BREAK_DURATION == default_break

\* add: the next id is the largest id + 1, or 1 for the empty store
tm_next_id(ts) ==
    IF ts = <<>> THEN 1
    ELSE 1 + (CHOOSE m \in {ts[i].id : i \in 1..Len(ts)} :
                \A i \in 1..Len(ts) : ts[i].id <= m)

\* add(name, durationMinutes): ValidationError for an empty name or a
\* duration <= 0; the result is the new list, or <<>> wrapped as "no change"
tm_add_ok(name, dur) == name # "" /\ dur > 0

tm_add(ts, name, dur, t) ==
    Append(ts, [id |-> tm_next_id(ts), name |-> name, duration |-> dur,
                completed |-> FALSE, created_at |-> t, completed_at |-> <<>>,
                tags |-> <<>>])

\* get_task(id): index of the task, 0 for not found
tm_get_task(ts, id) ==
    IF \E i \in 1..Len(ts) : ts[i].id = id
    THEN CHOOSE i \in 1..Len(ts) : ts[i].id = id
    ELSE 0

\* complete_task(id): sets completed and completed_at once; a completed or
\* unknown task is left as it is
tm_complete_task(ts, id, t) ==
    LET i == tm_get_task(ts, id)
    IN IF i = 0 \/ ts[i].completed THEN ts
       ELSE [ts EXCEPT ![i] = [@ EXCEPT !.completed = TRUE,
                                        !.completed_at = <<t>>]]

\* delete(id): the list without the task
tm_delete(ts, id) == SelectSeq(ts, LAMBDA x : x.id # id)

(***************************************************************************)
(* task_timer_gui.py. A callback runs to its end before the next one; its  *)
(* effect is computed on a record of the window's state (Cur), which the   *)
(* action then commits. Message boxes are answered at once.                *)
(*                                                                         *)
(* The clock is kept relative: a pending countdown holds end_in, which is  *)
(* end_time - time.time(), and due_in, the time until Tk runs its after()  *)
(* callback; time_passes lowers both.                                      *)
(***************************************************************************)
\* seconds followed once a second countdown is pending beside the first
MaxOverlap == 2
\* calls of play_notification_sound followed
MaxNotes == 2

\* self.after(1000, update_display)
AfterDelay == 1

Cur ==
    [file |-> file, wall |-> wall, timers |-> timers, timer_id |-> timer_id,
     paused |-> paused, task_id |-> g_task_id, task |-> g_task,
     remaining |-> g_remaining, pause_cmd |-> pause_cmd,
     enabled |-> enabled, selection |-> selection, notes |-> g_notes,
     sess |-> sess, overlap |-> overlap]

Commit(S) ==
    /\ file' = S.file
    /\ wall' = S.wall
    /\ timers' = S.timers
    /\ timer_id' = S.timer_id
    /\ paused' = S.paused
    /\ g_task_id' = S.task_id
    /\ g_task' = S.task
    /\ g_remaining' = S.remaining
    /\ pause_cmd' = S.pause_cmd
    /\ enabled' = S.enabled
    /\ selection' = S.selection
    /\ g_notes' = S.notes
    /\ sess' = S.sess
    /\ overlap' = S.overlap
    /\ UNCHANGED <<procVars, histVars, out>>

\* refresh_task_list: the list is reloaded and rebuilt, the selection is lost
refresh_task_list(S) == [S EXCEPT !.selection = 0]

\* disable_buttons / enable_buttons
disable_buttons(S) == [S EXCEPT !.enabled = FALSE]
enable_buttons(S) == [S EXCEPT !.enabled = TRUE]

\* self.timer_id = self.after(1000, update_display): the callback of this
\* countdown is pending, and it is the one self.timer_id names
schedule(S, end_in, tid, is_break) ==
    [S EXCEPT
        !.timers = Append([i \in 1..Len(S.timers) |->
                              [S.timers[i] EXCEPT !.current = FALSE]],
                          [end_in |-> end_in, due_in |-> AfterDelay,
                           task_id |-> tid, is_break |-> is_break,
                           current |-> TRUE]),
        !.timer_id = "set"]

\* self.after_cancel(self.timer_id): the callback it names, if still pending
after_cancel(S) ==
    [S EXCEPT !.timers = SelectSeq(S.timers, LAMBDA x : ~x.current)]

\* mutant of after_cancel: nothing is cancelled
after_cancel_nothing(S) == S

\* the pending callback of countdown c has run and scheduled itself again
reschedule(S, c) ==
    [S EXCEPT
        !.timers = [i \in 1..Len(S.timers) |->
                      IF i = c
                      THEN [S.timers[i] EXCEPT !.due_in = AfterDelay,
                                               !.current = TRUE]
                      ELSE [S.timers[i] EXCEPT !.current = FALSE]],
        !.timer_id = "set"]

\* the pending callback of countdown c has run for the last time
drop(S, c) ==
    [S EXCEPT !.timers = SubSeq(S.timers, 1, c - 1)
                            \o SubSeq(S.timers, c + 1, Len(S.timers))]

\* update_display of the break countdown begun by prompt_for_break: its
\* first run, DEFAULT_BREAK_DURATION minutes before the end
run_break_timer(S) ==
    LET secs == DEFAULT_BREAK_DURATION * SecondsPerMinute
        S1 == disable_buttons(S)
        S2 == [S1 EXCEPT !.remaining = <<secs>>]
    IN schedule(S2, secs, 0, TRUE)

\* update_display, lines 156-175, of a countdown with end_time - now = end_in;
\* c is its pending callback that Tk is running, 0 when run_timer calls it
update_display(S, c, end_in, tid, is_break, accept) ==
    LET S1 == [S EXCEPT !.remaining = <<end_in>>]
    IN IF end_in > 0
       THEN IF c = 0 THEN schedule(S1, end_in, tid, is_break)
            ELSE reschedule(S1, c)
       ELSE LET S2 == [(IF c = 0 THEN S1 ELSE drop(S1, c)) EXCEPT
                          !.notes = Append(S1.notes,
                                     IF is_break THEN "break" ELSE "work")]
                S3 == enable_buttons(S2)
            IN IF ~is_break /\ tid # 0
               THEN LET done == tm_complete_task(S3.file, tid, S3.wall)
                        S4 == [S3 EXCEPT
                                 !.file = done,
                                 !.sess = IF @ = "Running"
                                          THEN "Completed" ELSE @]
                        S5 == refresh_task_list(S4)
                    IN IF accept THEN run_break_timer(S5) ELSE S5
               ELSE S3

\* run_timer(duration_minutes, label, task_id, is_break): minutes is the
\* fraction num/den; end_time = now + minutes * 60, then update_display()
gui_run_timer(S, num, den, tid, is_break, accept) ==
    update_display(disable_buttons(S), 0,
                   (num * SecondsPerMinute) \div den, tid, is_break, accept)

\* start_selected_task, for the row selected in the listbox
start_selected_task(S, accept) ==
    IF S.selection = 0
    THEN [S EXCEPT !.task_id = <<0>>]
    ELSE LET id == S.file[S.selection].id
             S1 == [S EXCEPT !.task_id = <<id>>]
         IN IF S1.paused = 1 THEN S1
            ELSE LET t == S.file[S.selection]
                     S2 == [S1 EXCEPT !.task = <<t.name>>]
                 IN IF t.completed THEN S2
                    ELSE gui_run_timer([S2 EXCEPT !.sess = "Running"],
                                       t.duration, 1, id, FALSE, accept)

\* pause_timer
pause_timer(S) ==
    LET S1 == [S EXCEPT !.paused = 0]
        i == IF S.task_id = <<>> THEN 0
             ELSE tm_get_task(S.file, S.task_id[1])
    IN IF i = 0 THEN S1
       ELSE IF S.file[i].completed THEN S1
       ELSE IF S.timer_id = "None" THEN S1
       ELSE LET S2 == after_cancel(S1)
                S3 == [S2 EXCEPT !.pause_cmd = "resume", !.paused = 1,
                                 !.sess = IF @ = "Running" THEN "Paused" ELSE @]
            IN enable_buttons(S3)

\* resume_timer: "paused=0" assigns a local; the globals remaining, task and
\* task_id are read
resume_timer(S, accept) ==
    IF S.remaining = <<>> \/ S.task = <<>> \/ S.task_id = <<>> THEN S
    ELSE LET S1 == [S EXCEPT !.sess = IF @ = "Paused" THEN "Running" ELSE @]
             S2 == gui_run_timer(S1, S.remaining[1], SecondsPerMinute,
                                 S.task_id[1], FALSE, accept)
         IN [S2 EXCEPT !.pause_cmd = "pause"]

\* reset_timer
reset_timer(S) ==
    LET S1 == [S EXCEPT !.paused = 0, !.remaining = <<0>>]
        S2 == IF S1.timer_id = "set" THEN after_cancel(S1) ELSE S1
        S3 == [S2 EXCEPT !.pause_cmd = "pause",
                         !.sess = IF @ \in {"Running", "Paused"}
                                  THEN "Cancelled" ELSE @]
    IN enable_buttons(S3)

\* add_task of the window: name and duration as typed; dur = <<>> stands for
\* a text that int() rejects
gui_add_task(S, name, dur) ==
    IF name = "" THEN S
    ELSE IF dur = <<>> THEN S
    ELSE IF ~tm_add_ok(name, dur[1]) THEN S
    ELSE refresh_task_list(
            [S EXCEPT !.file = tm_add(S.file, name, dur[1], S.wall)])

\* delete_selected_task, the confirmation answered yes or no
delete_selected_task(S, yes) ==
    IF S.selection = 0 \/ ~yes THEN S
    ELSE refresh_task_list(
            [S EXCEPT !.file = tm_delete(S.file, S.file[S.selection].id)])

(***************************************************************************)
(* Events of the window                                                    *)
(***************************************************************************)
\* the notifications followed are bounded
NotesLeft == Len(g_notes) < MaxNotes

\* while two countdowns are pending only the timer buttons are followed
Single == overlap = 0

\* a click on a row of the enabled listbox
Select(i) ==
    /\ enabled
    /\ Single
    /\ i \in 1..Len(file)
    /\ selection # i
    /\ Commit([Cur EXCEPT !.selection = i])

\* the Add Task button
AddButton(name, dur) ==
    /\ enabled
    /\ Single
    /\ tm_next_id(file) \in TaskIds
    /\ Len(file) < MaxTasks
    /\ Commit(gui_add_task(Cur, name, dur))

\* the Delete Selected button
DeleteButton(yes) ==
    /\ enabled
    /\ Single
    /\ Commit(delete_selected_task(Cur, yes))

\* the Start Selected button
StartButton(accept) ==
    /\ enabled
    /\ Single
    /\ NotesLeft
    /\ Commit(start_selected_task(Cur, accept))

\* the countdown of the selected row was begun within this second
RapidClick ==
    /\ selection # 0
    /\ \E c \in 1..Len(timers) :
          /\ ~timers[c].is_break
          /\ timers[c].task_id = file[selection].id
          /\ timers[c].end_in = file[selection].duration * SecondsPerMinute

\* a double click on the listbox (bind "<Double-1>"); the binding also runs
\* while the listbox is disabled (the selection then stays as it was), which
\* is followed for one further click right after the one that began a
\* countdown: a second countdown is then pending beside the first
DoubleClick(accept) ==
    /\ selection # 0
    /\ Single
    /\ enabled \/ RapidClick
    /\ NotesLeft
    /\ LET S == start_selected_task(Cur, accept)
       IN Commit([S EXCEPT !.overlap = IF Len(S.timers) > 1 THEN 1 ELSE 0])

\* the Pause button while its command is pause_timer
PauseButton ==
    /\ pause_cmd = "pause"
    /\ Commit(pause_timer(Cur))

\* the Pause button while its command is resume_timer
ResumeButton(accept) ==
    /\ pause_cmd = "resume"
    /\ NotesLeft
    /\ Commit(resume_timer(Cur, accept))

\* the Reset Timer button
ResetButton == Commit(reset_timer(Cur))

\* Tk runs the due after() callback of countdown c
Tick(c, accept) ==
    /\ c \in 1..Len(timers)
    /\ timers[c].due_in <= 0
    /\ NotesLeft
    /\ Commit(update_display(Cur, c, timers[c].end_in, timers[c].task_id,
                             timers[c].is_break, accept))

\* one second goes by
time_passes ==
    /\ timers # <<>>
    /\ overlap <= MaxOverlap
    /\ \A c \in 1..Len(timers) : timers[c].due_in > -MaxLate
    /\ timers' = [c \in 1..Len(timers) |->
                    [timers[c] EXCEPT !.end_in = @ - 1, !.due_in = @ - 1]]
    /\ overlap' = IF Single THEN 0 ELSE overlap + 1
    /\ UNCHANGED <<storeVars, procVars, histVars, out, timer_id, paused,
                   g_task_id, g_task, g_remaining, pause_cmd, enabled,
                   selection, g_notes, sess>>

NextGUI ==
    \/ \E i \in 1..MaxTasks : Select(i)
    \/ \E n \in {"", "a"}, d \in {<<>>, <<0>>, <<1>>} : AddButton(n, d)
    \/ \E y \in BOOLEAN : DeleteButton(y)
    \/ \E a \in BOOLEAN : StartButton(a)
    \/ \E a \in BOOLEAN : DoubleClick(a)
    \/ PauseButton
    \/ \E a \in BOOLEAN : ResumeButton(a)
    \/ ResetButton
    \/ \E c \in 1..Len(timers), a \in BOOLEAN : Tick(c, a)
    \/ time_passes

SpecGUI == Init /\ [][NextGUI]_vars

(***************************************************************************)
(* Claims about the command line program, checked under Spec               *)
(***************************************************************************)
\* the record in the store for the same task (same id, same creation) after
\* a step, at the same position
SameTask(i) ==
    /\ i <= Len(file')
    /\ file'[i].id = file[i].id
    /\ file'[i].created_at = file[i].created_at

\* a step of Spec that is a start command for task_id (start is the only
\* command that leaves last.op = "start" from an idle program)
IsStart == pc = "idle" /\ last'.op = "start"

\* C1: after any sequence of add and delete, no two tasks in the store have
\* the same id. (Violated: add, add, delete 1, add gives two tasks with id 2.)
C1_UniqueIds ==
    \A i, j \in 1..Len(file) : i # j => file[i].id # file[j].id

\* largest id of a list of tasks, 0 for the empty list
MaxId(ts) ==
    IF ts = <<>> THEN 0
    ELSE CHOOSE m \in {ts[i].id : i \in 1..Len(ts)} :
            \A i \in 1..Len(ts) : ts[i].id <= m

\* C2: an id once assigned is never assigned again by a later add, and every
\* add assigns (largest id in the store) + 1, or 1 for the empty store.
\* (Violated: add, add, delete 1, add assigns 2 twice.)
C2_IdsNeverReused ==
    /\ \A i, j \in 1..Len(assigned) : i # j => assigned[i] # assigned[j]
    /\ last.op = "add" =>
          last.id = MaxId(SubSeq(file, 1, Len(file) - 1)) + 1

\* C3: with valid inputs and no deletion, the ids assigned by add are pairwise
\* distinct and strictly increasing in call order.
C3_IncreasingIds ==
    ~everDeleted =>
        \A i, j \in 1..Len(assigned) : i < j => assigned[i] < assigned[j]

\* C3 witness: several adds, no delete
C3_Witness == ~everDeleted /\ Len(assigned) >= 2 /\ Len(file) >= 2

\* C4: once completed_at of a task is set, no later operation changes it.
\* (Violated: start runs the timer of a completed task again and overwrites
\* completed_at.)
C4_CompletedAtSetOnce ==
    [][\A i \in 1..Len(file) :
          (file[i].completed_at # <<>> /\ SameTask(i)) =>
              file'[i].completed_at = file[i].completed_at]_vars

\* C5: starting a completed task returns AlreadyCompleted and starts nothing:
\* no work session, no countdown, no notification, store unchanged.
\* (Violated: start_timer never looks at task["completed"].)
C5_StartCompletedRefused ==
    [][(/\ IsStart
        /\ \E i \in 1..Len(file) :
              file[i].id = last'.id /\ file[i].completed)
        => (/\ last'.result = "AlreadyCompleted"
            /\ pc' = "idle"
            /\ file' = file
            /\ UNCHANGED <<work, notes>>)]_vars

\* C6: starting an id absent from the store fails with NotFound: no session
\* is started, no notification is triggered, the store is unchanged.
C6_StartAbsentNotFound ==
    [][(IsStart /\ \A i \in 1..Len(file) : file[i].id # last'.id)
        => (/\ last'.result = "NotFound"
            /\ pc' = "idle"
            /\ UNCHANGED <<storeVars, procVars>>)]_vars

\* C6 witness: a start of an absent id was refused on a non-empty store
C6_Witness ==
    /\ last.op = "start"
    /\ last.result = "NotFound"
    /\ file # <<>>
    /\ \A i \in 1..Len(file) : file[i].id # last.id

C8_CompletedAtIffCompleted ==
    \A i \in 1..Len(file) : (file[i].completed_at # <<>>) <=> file[i].completed

\* C8 witness: a store with a completed and an incomplete task
C8_Witness ==
    /\ \E i \in 1..Len(file) : file[i].completed /\ file[i].completed_at # <<>>
    /\ \E i \in 1..Len(file) : ~file[i].completed

(***************************************************************************)
(* Claims about the window, checked under SpecGUI                          *)
(***************************************************************************)
\* the tasks of the store that are completed, by id
CompletedIds(ts) == {ts[i].id : i \in {j \in 1..Len(ts) : ts[j].completed}}

\* C9: once the session has been cancelled (Reset Timer) and while no new
\* session is started, no later callback changes the remaining time, plays a
\* notification or marks a task completed.
C9_CancelledIsQuiet ==
    [][(sess = "Cancelled" /\ sess' = "Cancelled")
          => /\ g_remaining' = g_remaining
             /\ g_notes' = g_notes
             /\ CompletedIds(file') \subseteq CompletedIds(file)]_vars

\* C10: the pause takes the time left on the countdown at that moment
\* (end_time - now), the remaining time does not change while the session is
\* Paused, and the resumed countdown starts from the same value.
C10_PauseResumeKeepsRemaining ==
    [][/\ (sess = "Running" /\ sess' = "Paused")
            => \A c \in 1..Len(timers) :
                   timers[c].current => g_remaining' = <<timers[c].end_in>>
       /\ (sess = "Paused" /\ sess' \in {"Paused", "Running"})
            => g_remaining' = g_remaining]_vars

(***************************************************************************)
(* Further claims about the command line program, checked under Spec       *)
(***************************************************************************)
\* C11: every task in the store has a non-empty name and a positive duration
\* (add refuses an empty name and a duration <= 0).
\* (Violated: "add a 0" stores a task of 0 minutes; add_task validates
\* nothing.)
C11_ValidTasks ==
    \A i \in 1..Len(file) : file[i].name # "" /\ file[i].duration > 0

\* the kinds of the notifications played by the running start command
NoteKinds(ns) == [k \in 1..Len(ns) |-> ns[k].kind]

\* C12: end to end. When the break of a start command (not --silent) whose
\* work countdown completed runs to completion, the task is completed with
\* completed_at set, one work and one break notification were triggered, and
\* the task record in the store is the one written when the work session
\* ended: the break session did not change it.
C12_EndToEnd ==
    [][(pc = "break_sound" /\ brk' = "Completed" /\ ~silent)
          => /\ work' = "Completed"
             /\ NoteKinds(notes') = <<"work", "break">>
             /\ \E i \in 1..Len(file') :
                   /\ file'[i] = tasks[task]
                   /\ file'[i].completed
                   /\ file'[i].completed_at # <<>>]_vars

\* C12 witness: work and break both ran to completion, both notified, the
\* task of the command is completed in the store
C12_Witness ==
    /\ pc = "idle"
    /\ last.op = "start"
    /\ work = "Completed"
    /\ brk = "Completed"
    /\ NoteKinds(notes) = <<"work", "break">>
    /\ \E i \in 1..Len(file) :
          file[i].id = last.id /\ file[i].completed /\ file[i].duration > 0

\* C13: a break session starts only from the break prompt, answered with
\* something other than "n", of a start command that was given --break, after
\* its work session ended Completed and its task was written to the store as
\* completed; without --break the prompt is never shown.
C13_BreakOnlyAfterCompletedWork ==
    [][/\ (brk # "Running" /\ brk' = "Running")
            => /\ pc = "prompt"
               /\ work = "Completed"
               /\ break_duration.kind # "none"
               /\ last'.result = "BreakAccepted"
               /\ tasks[task].completed
               /\ \E i \in 1..Len(file) : file[i] = tasks[task]
       /\ (pc' = "prompt" \/ (~offered /\ offered'))
            => break_duration.kind # "none"
       /\ last'.result = "BreakDeclined" => brk' # "Running"]_vars

\* C13 witness: an accepted break is running after a completed work session
C13_Witness ==
    /\ pc = "break"
    /\ brk = "Running"
    /\ work = "Completed"
    /\ last.result = "BreakAccepted"
    /\ remaining > 0

\* C14: a break session never changes the task store: no step of the break
\* countdown, its notification, its completion or its interruption writes the
\* data file.
C14_BreakLeavesStore ==
    [][(pc = "break" \/ pc = "break_sound")
          => (file' = file /\ wall' = wall)]_vars

\* C14 witness: a break session that ran and was interrupted, after a work
\* session that completed its task
C14_Witness ==
    /\ pc = "idle"
    /\ work = "Completed"
    /\ brk = "Cancelled"
    /\ \E i \in 1..Len(file) : file[i].id = last.id /\ file[i].completed

\* C15: while a countdown runs, the remaining time it shows is
\* max(0, deadline - now): the duration less the seconds of clock time gone by
\* since it began, so that the countdown never lasts longer than its duration.
\* (Violated: run_timer counts loop iterations; a sleep that overruns is not
\* noticed.)
C15_RemainingIsDeadlineMinusNow ==
    (pc = "work" \/ pc = "break") =>
        remaining = (IF duration - elapsed > 0 THEN duration - elapsed ELSE 0)

\* the notifications of one kind ("work" or "break") among ns
NotesOf(ns, kind) == Cardinality({k \in 1..Len(ns) : ns[k].kind = kind})

\* C16: a session that reaches zero becomes Completed with exactly one
\* completion notification triggered for it (start without --silent); a
\* session that ends Cancelled has triggered none.
\* (Violated: Ctrl-C while play_notification_sound is playing makes run_timer
\* return False after the notification was triggered.)
C16_NotifiedOnceIffCompleted ==
    [][/\ (work = "Running" /\ work' = "Completed" /\ ~silent)
            => NotesOf(notes', "work") = 1
       /\ (brk = "Running" /\ brk' = "Completed" /\ ~silent)
            => NotesOf(notes', "break") = 1
       /\ work' = "Cancelled" => NotesOf(notes', "work") = 0
       /\ brk' = "Cancelled" => NotesOf(notes', "break") = 0]_vars

(***************************************************************************)
(* The countdown of run_timer on its own: one call of run_timer with any   *)
(* duration of 1..MaxTotal seconds, as work timer or as break timer        *)
(***************************************************************************)
InitColor ==
    /\ file = <<>>
    /\ wall = 0
    /\ pc \in {"work", "break"}
    /\ tasks = <<>>
    /\ task = 0
    /\ duration \in 1..MaxTotal
    /\ remaining = duration
    /\ elapsed = 0
    /\ time_color = "none"
    /\ break_duration = [kind |-> "none", minutes |-> 0]
    /\ silent = FALSE
    /\ notes = <<>>
    /\ work = "Idle"
    /\ brk = "Idle"
    /\ offered = FALSE
    /\ assigned = <<>>
    /\ everDeleted = FALSE
    /\ last = [op |-> "none", id |-> 0, result |-> "none"]
    /\ out = NoOutput
    /\ timers = <<>>
    /\ timer_id = "None"
    /\ paused = 0
    /\ g_task_id = <<>>
    /\ g_task = <<>>
    /\ g_remaining = <<>>
    /\ pause_cmd = "pause"
    /\ enabled = TRUE
    /\ selection = 0
    /\ g_notes = <<>>
    /\ sess = "Idle"
    /\ overlap = 0

NextColor == \E d \in 1..(1 + MaxLate) : run_timer_tick(d)

SpecColor == InitColor /\ [][NextColor]_vars

\* the band a colour of run_timer stands for: the first colour of each
\* scheme is HIGH, the second MEDIUM, the third LOW
BandOf(color) ==
    CASE color \in {"GREEN", "CYAN"} -> "HIGH"
      [] color \in {"YELLOW", "BLUE"} -> "MEDIUM"
      [] color \in {"RED", "MAGENTA"} -> "LOW"
      [] OTHER -> "none"

\* C17: at every time printed, with remaining in 1..duration, the band is
\* HIGH exactly when remaining/duration > 0.5, MEDIUM exactly when
\* 0.25 < remaining/duration <= 0.5 and LOW exactly when
\* remaining/duration <= 0.25, in the work scheme for a work timer and in the
\* break scheme for a break timer (the fractions are compared after
\* multiplying by the positive duration)
C17_Bands ==
    [][((pc = "work" \/ pc = "break") /\ pc' = pc
            /\ remaining' = remaining - 1)
          => /\ remaining \in 1..duration
             /\ BandOf(time_color') = "HIGH" <=> 2 * remaining > duration
             /\ BandOf(time_color') = "MEDIUM"
                    <=> (4 * remaining > duration /\ 2 * remaining <= duration)
             /\ BandOf(time_color') = "LOW" <=> 4 * remaining <= duration
             /\ time_color' \in (IF pc = "break"
                                 THEN {"CYAN", "BLUE", "MAGENTA"}
                                 ELSE {"GREEN", "YELLOW", "RED"})]_vars

\* a break timer of 100 seconds has just shown 50 in the MEDIUM colour
C17_Witness ==
    /\ pc = "break"
    /\ duration = 100
    /\ remaining = 49
    /\ time_color = "BLUE"

\* some task of ts has this id
HasId(ts, id) == \E i \in 1..Len(ts) : ts[i].id = id

\* C18: a successful delete of an id leaves no task with that id; an id that
\* is absent from the store stays absent until an add; and start or delete of
\* an absent id yields NotFound and leaves the store unchanged. Hence after a
\* successful delete every start or delete of that id yields NotFound until
\* a later add.
C18_DeletedIsNotFound ==
    [][/\ (last' # last /\ last'.op = "delete" /\ last'.result = "ok")
            => ~HasId(file', last'.id)
       /\ \A id \in TaskIds :
            (~HasId(file, id) /\ HasId(file', id))
                => (last'.op = "add" /\ Len(file') = Len(file) + 1)
       /\ (last' # last /\ pc = "idle" /\ ~HasId(file, last'.id)
             /\ (last'.op = "start" \/ last'.op = "delete"))
            => (last'.result = "NotFound" /\ file' = file /\ pc' = "idle")]_vars

\* the only task ever added, task 1, was deleted, and a start of 1 then
\* answered NotFound
C18_Witness ==
    /\ assigned = <<1>>
    /\ everDeleted
    /\ ~HasId(file, 1)
    /\ last = [op |-> "start", id |-> 1, result |-> "NotFound"]

(***************************************************************************)
(* The store commands on their own: add with tags, delete, and then list   *)
(* and stats, which report on the store and leave it as it is              *)
(***************************************************************************)
\* tags given to add after --tag, as typed
StoreTags == {<<>>, <<"a">>, <<"A", "b">>, <<"a", "A">>}
\* the argument of --filter: none, the empty string, a tag
FilterArgs == {<<>>, <<"">>, <<"A">>}

\* one command at a time; add, delete and start are followed until the first
\* report, and start while its completion can still read the clock
NextStore ==
    \/ /\ pc = "idle" /\ out.cmd = "none"
       /\ wall < MaxStoreWall
       /\ Len(file) < MaxStoreTasks
       /\ \E n \in Names, d \in DurationArgs, tg \in StoreTags :
            add_task(n, d, tg)
    \/ /\ pc = "idle" /\ out.cmd = "none"
       /\ \E id \in 1..(MaxStoreTasks + 1) : delete_task(id)
    \/ pc = "idle" /\ \E f \in FilterArgs : list_tasks(f)
    \/ pc = "idle" /\ \E f \in FilterArgs : show_stats(f)
    \/ /\ out.cmd = "none"
       /\ wall < MaxWall
       /\ \E id \in 1..(MaxStoreTasks + 1) :
            start_timer(id, [kind |-> "none", minutes |-> 0], TRUE)
    \/ run_timer_tick(1)
    \/ \E r \in SoundResults : run_timer_timeup(r)
    \/ run_timer_return
    \/ run_timer_interrupt

SpecStore == Init /\ [][NextStore]_vars

\* the step of a list or stats command: nothing but the report changes
IsReport == UNCHANGED <<storeVars, procVars, histVars, guiVars>>

\* sum of the durations of the tasks of ts at the indices in idx
RECURSIVE DurationsAt(_, _)
DurationsAt(ts, idx) ==
    IF idx = {} THEN 0
    ELSE LET i == CHOOSE i \in idx : TRUE
         IN ts[i].duration + DurationsAt(ts, idx \ {i})

\* C19: in the unfiltered statistics every tag of every task has a bucket,
\* and the bucket of tag t has total = the number of tasks whose tags contain
\* t case-insensitively, completed = the number of those that are completed,
\* time = the sum of the durations of those, and agrees with the statistics
\* filtered by t
C19_TagBucketsMatchFilter ==
    [][(IsReport /\ out'.cmd = "stats" /\ out'.filter = <<>>)
          => /\ \A i \in 1..Len(file) : \A k \in 1..Len(file[i].tags) :
                    Lower(file[i].tags[k]) \in DOMAIN out'.tag_stats
             /\ \A t \in DOMAIN out'.tag_stats :
                    LET having == {i \in 1..Len(file) : HasTag(file[i], t)}
                        done == {i \in having : file[i].completed}
                        b == out'.tag_stats[t]
                        f == Stats(file, <<t>>)
                    IN /\ b.total = Cardinality(having)
                       /\ b.completed = Cardinality(done)
                       /\ b.time = DurationsAt(file, done)
                       /\ b.total = f.total
                       /\ b.completed = f.completed
                       /\ b.time = f.total_time]_vars

\* C20: list with a filter tag shows exactly the tasks whose tags contain the
\* tag case-insensitively, list without one shows every task, both in the
\* order of the store, and that order is ascending in the ids (an empty
\* --filter argument is taken as no filter)
C20_ListFilterAndOrder ==
    [][(IsReport /\ out'.cmd = "list")
          => /\ out'.listed =
                    (IF out'.filter # <<>> /\ out'.filter[1] # ""
                     THEN SelectSeq(file, LAMBDA t :
                            \E k \in 1..Len(t.tags) :
                                Lower(t.tags[k]) = Lower(out'.filter[1]))
                     ELSE file)
             /\ \A i, j \in 1..Len(out'.listed) :
                    i < j => out'.listed[i].id <= out'.listed[j].id]_vars

\* C21: every task in the store has tags in lower case and without repeats
\* (the order given at add is the order of the list, which add stores as is)
C21_TagsNormalized ==
    \A i \in 1..Len(file) :
        /\ \A k \in 1..Len(file[i].tags) :
                file[i].tags[k] = Lower(file[i].tags[k])
        /\ \A k, l \in 1..Len(file[i].tags) :
                file[i].tags[k] = file[i].tags[l] => k = l

\* the notification of the countdown that just ended was tried and failed
SoundFailed == notes # <<>> /\ notes[Len(notes)].result = "failed"

\* C22: a failure of the notifier is swallowed. Whatever the playback did,
\* the countdown that reached zero goes on to the return of run_timer; and
\* unless the command is interrupted, a work session whose notification
\* failed ends Completed with its task marked completed in the store, and a
\* break session whose notification failed ends Completed.
C22_NotifierFailureSwallowed ==
    [][/\ ((pc = "work" \/ pc = "break") /\ remaining = 0 /\ pc' # pc
             /\ work' # "Cancelled" /\ brk' # "Cancelled")
            => (/\ pc' = (IF pc = "work" THEN "work_sound" ELSE "break_sound")
                /\ work' = work /\ brk' = brk)
       /\ (pc = "work_sound" /\ SoundFailed /\ pc' # pc
             /\ work' # "Cancelled")
            => (/\ work' = "Completed"
                /\ \E i \in 1..Len(file') :
                      /\ file'[i].id = tasks[task].id
                      /\ file'[i].completed)
       /\ (pc = "break_sound" /\ SoundFailed /\ pc' # pc
             /\ brk' # "Cancelled")
            => brk' = "Completed"]_vars

\* a work session ended Completed although its notification failed
C22_Witness ==
    /\ pc = "idle"
    /\ work = "Completed"
    /\ notes = <<[kind |-> "work", result |-> "failed"]>>
    /\ \E i \in 1..Len(file) : file[i].completed

\* C27: a successful delete removes exactly one task: the store is the old
\* store without one of its records, the others unchanged and in their order
C27_DeleteRemovesOne ==
    [][(last' # last /\ last'.op = "delete" /\ last'.result = "ok")
          => \E i \in 1..Len(file) :
                /\ file[i].id = last'.id
                /\ file' = SubSeq(file, 1, i - 1)
                             \o SubSeq(file, i + 1, Len(file))]_vars

(***************************************************************************)
(* Two invocations at once: while a start command is counting down in one  *)
(* terminal, add and delete commands run in another                        *)
(***************************************************************************)
NextConcurrent ==
    \/ /\ wall < MaxWall
       /\ Len(file) < MaxTasks
       /\ \E n \in Names, d \in DurationArgs, tg \in TagArgs : add_task(n, d, tg)
    \/ \E id \in TaskIds : delete_task(id)
    \/ \E id \in TaskIds :
            start_timer(id, [kind |-> "none", minutes |-> 0], TRUE)
    \/ run_timer_tick(1)
    \/ \E r \in SoundResults : run_timer_timeup(r)
    \/ run_timer_return
    \/ run_timer_interrupt

SpecConcurrent == Init /\ [][NextConcurrent]_vars

\* C28: the completion write of a work session changes nothing in the store
\* but the completed and completed_at fields of its task: every record that
\* another invocation added meanwhile is still there, and none that it
\* deleted is back
C28_CompletionKeepsOtherWrites ==
    [][(pc = "work_sound" /\ work' = "Completed")
          => /\ Len(file') = Len(file)
             /\ \A i \in 1..Len(file) :
                    \/ file'[i] = file[i]
                    \/ /\ file[i].id = tasks[task].id
                       /\ file'[i] = [file[i] EXCEPT
                                        !.completed = file'[i].completed,
                                        !.completed_at = file'[i].completed_at]]_vars

\* C29: once the countdown of a work session has reached zero and its
\* notification is playing, the session cannot end otherwise than Completed
\* with its task marked completed in the store
C29_ZeroLeadsToCompleted ==
    [][(pc = "work_sound" /\ ~silent /\ notes # <<>> /\ pc' # pc)
          => /\ work' = "Completed"
             /\ \E i \in 1..Len(file') :
                    /\ file'[i].id = tasks[task].id
                    /\ file'[i].completed]_vars

(***************************************************************************)
(* Start commands that are never interrupted, with a process that runs:    *)
(* a sleep returns, the playback returns, run_timer returns. A start is    *)
(* followed while its completion can still read the clock.                 *)
(***************************************************************************)
NextLive ==
    \/ /\ pc = "idle"
       /\ wall < MaxWall
       /\ Len(file) < MaxTasks
       /\ \E n \in Names, d \in DurationArgs, tg \in TagArgs : add_task(n, d, tg)
    \/ pc = "idle" /\ \E id \in TaskIds : delete_task(id)
    \/ /\ wall < MaxWall
       /\ \E id \in TaskIds, b \in BreakArgs, s \in BOOLEAN :
            start_timer(id, b, s)
    \/ \E d \in 1..(1 + MaxLate) : run_timer_tick(d)
    \/ \E r \in SoundResults : run_timer_timeup(r)
    \/ run_timer_return
    \/ \E r \in {"y", "n"} : confirm_break(r)

SpecLive ==
    /\ Init
    /\ [][NextLive]_vars
    /\ WF_vars(\E d \in 1..(1 + MaxLate) : run_timer_tick(d))
    /\ WF_vars(\E r \in SoundResults : run_timer_timeup(r))
    /\ WF_vars(run_timer_return)

\* the task named by the running start command is completed in the store
StartedTaskCompleted ==
    /\ last.op = "start"
    /\ \E i \in 1..Len(file) : file[i].id = last.id /\ file[i].completed

\* C30: a work session that was started and is never interrupted reaches
\* Completed, not before duration seconds of countdown have passed, and its
\* task is then marked completed in the store
C30_WorkSessionCompletes ==
    /\ (work = "Running") ~> (work = "Completed" /\ StartedTaskCompleted)
    /\ [][(pc = "work" /\ pc' = "work_sound")
            => (remaining = 0 /\ elapsed >= duration)]_vars

\* a work session of one minute has completed and marked its task
C30_Witness ==
    /\ work = "Completed"
    /\ StartedTaskCompleted
    /\ \E i \in 1..Len(file) :
          file[i].id = last.id /\ file[i].duration = 1

(***************************************************************************)
(* Further claims about the window, checked under SpecGUI                  *)
(***************************************************************************)
\* the break countdowns among the pending callbacks
BreakTimers(ts) == {c \in 1..Len(ts) : ts[c].is_break}

\* C13 (window): a break countdown begins only when the work session ended
\* Completed and its task is marked completed in the store. (The command
\* line program satisfies C13_BreakOnlyAfterCompletedWork; in the window,
\* Reset, Pause, Resume offers the break after a cancelled session, and also
\* after the task was deleted.)
C13_BreakAfterCompletedSession ==
    [][Cardinality(BreakTimers(timers')) > Cardinality(BreakTimers(timers))
          => /\ sess' = "Completed"
             /\ g_task_id # <<>>
             /\ g_task_id[1] \in CompletedIds(file')]_vars

\* C23: at most one countdown is scheduled at any time
C23_OneCountdown == Len(timers) <= 1

\* the work countdowns among the pending callbacks
WorkTimers(ts) == {c \in 1..Len(ts) : ~ts[c].is_break}

\* C24: Completed and Cancelled are terminal, pause is accepted only in
\* Running and resume only in Paused. Pause is accepted when the button
\* turns into Resume; resume is accepted when the Resume button runs
\* run_timer and turns back into Pause (Reset also restores the button, and
\* clears paused). While the session stays Completed or Cancelled no work
\* countdown is begun, the task list is not written and paused is not set.
C24_TerminalStates ==
    [][/\ (pause_cmd = "pause" /\ pause_cmd' = "resume") => sess = "Running"
       /\ (pause_cmd = "resume" /\ pause_cmd' = "pause" /\ paused' = paused)
            => sess = "Paused"
       /\ ((sess = "Completed" \/ sess = "Cancelled") /\ sess' = sess)
            => (/\ Cardinality(WorkTimers(timers'))
                      <= Cardinality(WorkTimers(timers))
                /\ CompletedIds(file') \subseteq CompletedIds(file)
                /\ (paused' = 1 => paused = 1))]_vars

\* C25: the task completed by a work session is the one it was started for.
\* A start binds the global task_id to the task of the countdown it begins;
\* while the session is Running or Paused the binding does not change; and
\* the countdown begun by a resume, and the task written when the session
\* completes, are those of the binding.
C25_CompletesOwnTask ==
    [][/\ ((sess = "Running" \/ sess = "Paused")
             /\ (sess' = "Running" \/ sess' = "Paused" \/ sess' = "Completed"))
            => g_task_id' = g_task_id
       /\ (sess = "Paused" /\ sess' = "Running")
            => \A c \in WorkTimers(timers') :
                    timers'[c].task_id = g_task_id[1]
       /\ (sess = "Running" /\ sess' = "Completed")
            => CompletedIds(file') \subseteq
                    (CompletedIds(file) \cup {g_task_id[1]})]_vars

\* C26: the global paused is 1 exactly when the session is Paused
C26_PausedFlag == (paused = 1) <=> (sess = "Paused")

====
